---- MODULE Spec2Model ----
(***************************************************************************)
(* Model of the extraction core of procyclingstats:                        *)
(*   procyclingstats/scraper.py        Scraper (URL normalising, document  *)
(*                                     cache, reflective dispatch `parse`) *)
(*   procyclingstats/rider_scraper.py  Rider (operation set, teams_history)*)
(*   pcs/utils.py                      RequestWrapper (older fetch wrapper)*)
(*                                                                         *)
(* Python strings are sequences of one-character strings, so that slicing, *)
(* substring tests, split and join are computed as the code computes them. *)
(***************************************************************************)
EXTENDS Integers, Sequences, FiniteSets, TLC

VARIABLES cls, _url, _html, requests, born, call, ucase, tcase

vars == <<cls, _url, _html, requests, born, call, ucase, tcase>>

(***************************************************************************)
(* Bounds                                                                  *)
(***************************************************************************)
\* most network retrievals one object attempts
MaxRequests == 2
\* most extraction methods that fail on one page
MaxFaults == 1
\* most pieces an input URL is put together from
MaxParts == 4
\* most rows of a teams table
MaxRows == 2

(***************************************************************************)
(* Python string helpers                                                   *)
(***************************************************************************)
\* `sub in s`
Contains(sub, s) ==
    \E i \in 1..(Len(s) - Len(sub) + 1) : SubSeq(s, i, i + Len(sub) - 1) = sub

\* s.split(sep) for a one-character separator: the text before the first
\* separator, between neighbouring separators and after the last one; empty
\* fields are kept
Split(s, sep) ==
    LET at == {i \in 1..Len(s) : s[i] = sep}
        \* position of the k-th separator; 0 before the first field and
        \* Len(s) + 1 after the last
        pos(k) == IF k = 0 THEN 0
                  ELSE IF k > Cardinality(at) THEN Len(s) + 1
                  ELSE CHOOSE i \in at :
                         Cardinality({j \in at : j <= i}) = k
    IN  [k \in 1..(Cardinality(at) + 1) |->
            SubSeq(s, pos(k - 1) + 1, pos(k) - 1)]

RECURSIVE Join(_, _)
\* sep.join(parts)
Join(parts, sep) ==
    IF Len(parts) = 0 THEN <<>>
    ELSE IF Len(parts) = 1 THEN parts[1]
    ELSE parts[1] \o <<sep>> \o Join(Tail(parts), sep)

\* seq[n:] with n >= 0
DropFirst(seq, n) == SubSeq(seq, n + 1, Len(seq))

\* s.replace(c, "") for a one-character c
RemoveChar(s, c) == SelectSeq(s, LAMBDA x : x # c)

HTTPS == <<"h", "t", "t", "p", "s">>

BASE_URL ==
    <<"h", "t", "t", "p", "s", ":", "/", "/", "w", "w", "w", ".",
      "p", "r", "o", "c", "y", "c", "l", "i", "n", "g",
      "s", "t", "a", "t", "s", ".", "c", "o", "m", "/">>

(***************************************************************************)
(* URL normalising                                                         *)
(***************************************************************************)
\* the leading separator is kept
_make_absolute_url_keeps_separator(url) ==
    IF ~Contains(HTTPS, url) THEN BASE_URL \o url ELSE url

\* Scraper._make_absolute_url, for a non-empty url (url[0] of "" raises)
_make_absolute_url(url) ==
    IF ~Contains(HTTPS, url)
    THEN IF url[1] = "/" THEN BASE_URL \o Tail(url) ELSE BASE_URL \o url
    ELSE url

\* RequestWrapper._format_url, for a non-empty url (url[-1] of "" raises)
_format_url(url) ==
    IF ~Contains(HTTPS, url)
    THEN IF url[Len(url)] = "/"
         THEN BASE_URL \o SubSeq(url, 1, Len(url) - 1)
         ELSE BASE_URL \o url
    ELSE url

\* Scraper.relative_url
relative_url(url) == Join(DropFirst(Split(url, "/"), 3), "/")

\* RequestWrapper._cut_base_url
_cut_base_url(url) == Join(DropFirst(Split(url, "/"), 3), "/")

\* Scraper._get_valid_url: the base method only normalises; Rider does not
\* override it
_get_valid_url(url) == _make_absolute_url(url)

(***************************************************************************)
(* Rider URL pattern                                                       *)
(***************************************************************************)
Digits == {"0", "1", "2", "3", "4", "5", "6", "7", "8", "9"}

Letters ==
    {"a", "b", "c", "d", "e", "f", "g", "h", "i", "j", "k", "l", "m",
     "n", "o", "p", "q", "r", "s", "t", "u", "v", "w", "x", "y", "z"}

IsPrefix(p, s) == Len(p) <= Len(s) /\ SubSeq(s, 1, Len(p)) = p

\* reg.url_str without its leading separators: words joined by hyphens
reg_url_str(seg) ==
    /\ Len(seg) > 0
    /\ \A i \in 1..Len(seg) : seg[i] \in Letters \cup Digits \cup {"-"}
    /\ seg[1] # "-" /\ seg[Len(seg)] # "-"

\* reg.year without its leading separators: four digits
reg_year(seg) == Len(seg) = 4 /\ \A i \in 1..4 : seg[i] \in Digits

\* reg.overview without its leading separators
reg_overview(seg) == seg = <<"o", "v", "e", "r", "v", "i", "e", "w">>

\* Rider._url_validation_regex, matched against the whole string:
\*   base_url? rider url_str ((overview anything?) | (year anything?))? /*
_url_validation_regex(url) ==
    LET rest  == IF IsPrefix(BASE_URL, url)
                 THEN DropFirst(url, Len(BASE_URL)) ELSE url
        parts == Split(rest, "/")
        first == IF IsPrefix(BASE_URL, url)
                 THEN SelectSeq(parts, LAMBDA x : x # <<>>) ELSE parts
        segs  == IF Len(first) = 0 THEN <<>>
                 ELSE SelectSeq(Tail(first), LAMBDA x : x # <<>>)
    IN  /\ Len(first) > 0
        /\ first[1] = <<"r", "i", "d", "e", "r">>
        /\ Len(segs) >= 1
        /\ reg_url_str(segs[1])
        /\ Len(segs) >= 2 => (reg_overview(segs[2]) \/ reg_year(segs[2]))

\* Scraper._validate_url: fullmatch or ValueError carrying url and example
_validate_url(url, example) ==
    IF _url_validation_regex(url)
    THEN [raised |-> "none", url |-> url, example |-> <<>>]
    ELSE [raised |-> "ValueError", url |-> url, example |-> example]

(***************************************************************************)
(* Documents                                                               *)
(***************************************************************************)
None == [none |-> TRUE]

NotFoundMarker == "Page not found"
NoH1 == "<no h1>"

\* Rider's extraction methods that read self.html
HtmlMethods ==
    {"birthdate", "height", "name", "nationality", "place_of_birth",
     "points_per_season_history", "teams_history", "weight"}

FaultSets == {f \in SUBSET HtmlMethods : Cardinality(f) <= MaxFaults}

\* a raw body: its primary heading, the methods whose field the layout does
\* not carry (they raise ExpectedParsingError), and the methods the layout
\* breaks (they raise AttributeError).  A page without the rider heading has
\* no rider markup at all.
RiderPages ==
    {[h1 |-> "Tadej Pogacar", na |-> f[1], bad |-> f[2], empty |-> FALSE] :
        f \in {g \in FaultSets \X FaultSets :
                 /\ g[1] \cap g[2] = {}
                 /\ Cardinality(g[1]) + Cardinality(g[2]) <= MaxFaults}}

NotFoundPage ==
    [h1 |-> NotFoundMarker, na |-> {}, bad |-> HtmlMethods \ {"name"},
     empty |-> FALSE]

NoH1Page == [h1 |-> NoH1, na |-> {}, bad |-> HtmlMethods, empty |-> FALSE]

Pages == RiderPages \cup {NotFoundPage, NoH1Page}

\* the body ""
EmptyBody == [h1 |-> NoH1, na |-> {}, bad |-> {}, empty |-> TRUE]

Bodies == Pages \cup {EmptyBody}

\* what requests.get(url).text / session.get(url).html yields: a body, or
\* the transport raises
NetFail == [netfail |-> TRUE]
NetResults == Bodies \cup {NetFail}

\* HTMLParser(body): a fresh Document object; id tells objects apart
Doc(body, id, origin) == [page |-> body, id |-> id, origin |-> origin]

\* truth value of `html` in `if html:`
Truthy(body) == body # None /\ ~body.empty

\* html.css_first(".page-title > .main > h1"): the node or None
HasH1(body) == ~body.empty /\ body.h1 # NoH1

(***************************************************************************)
(* Dispatch                                                                *)
(***************************************************************************)
\* dir(self) of a Rider, in the sorted order inspect.getmembers works in and
\* returns: name, first character of the name, and what getattr yields
Members ==
    << [name |-> "__init__", first |-> "_", kind |-> "method"],
       [name |-> "__repr__", first |-> "_", kind |-> "method"],
       [name |-> "_get_parsing_methods", first |-> "_", kind |-> "method"],
       [name |-> "_get_valid_url", first |-> "_", kind |-> "method"],
       [name |-> "_make_absolute_url", first |-> "_", kind |-> "method"],
       [name |-> "_request_html", first |-> "_", kind |-> "method"],
       [name |-> "_validate_url", first |-> "_", kind |-> "method"],
       [name |-> "birthdate", first |-> "b", kind |-> "method"],
       [name |-> "height", first |-> "h", kind |-> "method"],
       [name |-> "html", first |-> "h", kind |-> "property"],
       [name |-> "name", first |-> "n", kind |-> "method"],
       [name |-> "nationality", first |-> "n", kind |-> "method"],
       [name |-> "normalized_relative_url", first |-> "n", kind |-> "method"],
       [name |-> "parse", first |-> "p", kind |-> "method"],
       [name |-> "place_of_birth", first |-> "p", kind |-> "method"],
       [name |-> "points_per_season_history", first |-> "p",
        kind |-> "method"],
       [name |-> "relative_url", first |-> "r", kind |-> "method"],
       [name |-> "teams_history", first |-> "t", kind |-> "method"],
       [name |-> "update_html", first |-> "u", kind |-> "method"],
       [name |-> "url", first |-> "u", kind |-> "property"],
       [name |-> "weight", first |-> "w", kind |-> "method"] >>

\* the `html` property
html(doc) ==
    IF doc = None
    THEN [raised |-> "ExpectedParsingError", origin |-> "NotFetched",
          ret |-> None]
    ELSE [raised |-> "none", origin |-> "", ret |-> doc]

\* the reserved names update_html and parse are not left out
_get_parsing_methods_keeps_reserved(doc) ==
    IF \E i \in 1..Len(Members) :
          Members[i].name = "html" /\ html(doc).raised # "none"
    THEN [raised |-> html(doc).raised, origin |-> html(doc).origin,
          methods |-> <<>>]
    ELSE [raised |-> "none", origin |-> "",
          methods |->
            SelectSeq(Members,
                      LAMBDA m : m.kind = "method" /\ m.first # "_")]

\* the members are looked up without reading the properties
_get_parsing_methods_static(doc) ==
    [raised |-> "none", origin |-> "",
     methods |->
       SelectSeq(Members,
                 LAMBDA m : /\ m.kind = "method"
                            /\ m.first # "_"
                            /\ m.name # "update_html"
                            /\ m.name # "parse")]

\* Scraper._get_parsing_methods: inspect.getmembers reads every attribute
\* of the object, the `html` property included, before the predicate and
\* the name filter are applied
_get_parsing_methods(doc) ==
    IF \E i \in 1..Len(Members) :
          Members[i].name = "html" /\ html(doc).raised # "none"
    THEN [raised |-> html(doc).raised, origin |-> html(doc).origin,
          methods |-> <<>>]
    ELSE [raised |-> "none", origin |-> "",
          methods |->
            SelectSeq(Members,
                      LAMBDA m : /\ m.kind = "method"
                                 /\ m.first # "_"
                                 /\ m.name # "update_html"
                                 /\ m.name # "parse")]

Value(name) == [tag |-> "value", of |-> name]
Null == [tag |-> "null", of |-> ""]
Raise(kind, origin) == [tag |-> "raise", kind |-> kind, origin |-> origin]

\* one extraction method of Rider called on the object: relative_url and
\* normalized_relative_url read only the URL, the others read self.html
\* first and then depend on the layout of the page
MethodCall(name, doc) ==
    IF name \notin HtmlMethods THEN Value(name)
    ELSE IF html(doc).raised # "none"
         THEN Raise(html(doc).raised, html(doc).origin)
    ELSE IF name = "name" /\ ~HasH1(doc.page)
         THEN Raise("AttributeError", "layout")
    ELSE IF name \in doc.page.na
         THEN Raise("ExpectedParsingError", "FieldUnavailable")
    ELSE IF name \in doc.page.bad
         THEN Raise("AttributeError", "layout")
    ELSE Value(name)

RECURSIVE ParseLoop(_, _, _, _, _, _, _, _)
\* the for loop of Scraper.parse
ParseLoop(methods, i, doc, ignore, nwu, data, invoked, downgraded) ==
    IF i > Len(methods)
    THEN [raised |-> "none", origin |-> "", returned |-> TRUE,
          parsed_data |-> data, invoked |-> invoked,
          downgraded |-> downgraded]
    ELSE LET m == methods[i].name
             r == MethodCall(m, doc)
         IN  IF r.tag = "value"
             THEN ParseLoop(methods, i + 1, doc, ignore, nwu,
                            Append(data, [key |-> m, value |-> r]),
                            Append(invoked, m), downgraded)
             ELSE IF r.kind \in ignore
             THEN ParseLoop(methods, i + 1, doc, ignore, nwu,
                            IF nwu
                            THEN Append(data, [key |-> m, value |-> Null])
                            ELSE data,
                            Append(invoked, m),
                            IF nwu THEN downgraded \cup {r.origin}
                            ELSE downgraded)
             ELSE [raised |-> r.kind, origin |-> r.origin,
                   returned |-> FALSE, parsed_data |-> <<>>,
                   invoked |-> Append(invoked, m),
                   downgraded |-> downgraded]

\* every exception is caught, whatever exceptions_to_ignore says
parse_catches_everything(doc, ignore, nwu) ==
    LET pm == _get_parsing_methods(doc)
    IN  IF pm.raised # "none"
        THEN [raised |-> pm.raised, origin |-> pm.origin,
              returned |-> FALSE, parsed_data |-> <<>>, invoked |-> <<>>,
              downgraded |-> {}]
        ELSE ParseLoop(pm.methods, 1, doc,
                       {"ExpectedParsingError", "AttributeError"}, nwu,
                       <<>>, <<>>, {})

\* Scraper.parse
parse(doc, ignore, nwu) ==
    LET pm == _get_parsing_methods(doc)
    IN  IF pm.raised # "none"
        THEN [raised |-> pm.raised, origin |-> pm.origin,
              returned |-> FALSE, parsed_data |-> <<>>, invoked |-> <<>>,
              downgraded |-> {}]
        ELSE ParseLoop(pm.methods, 1, doc, ignore, nwu, <<>>, <<>>, {})

(***************************************************************************)
(* Fetching                                                                *)
(***************************************************************************)
\* the cache is emptied before the request is made
update_html_clears_first(doc, got, id) ==
    IF got = NetFail
    THEN [raised |-> "ConnectionError", html |-> None]
    ELSE IF ~HasH1(got)
    THEN [raised |-> "AttributeError", html |-> None]
    ELSE IF got.h1 = NotFoundMarker
    THEN [raised |-> "ValueError", html |-> None]
    ELSE [raised |-> "none", html |-> Doc(got, id, "retrieved")]

\* the page is installed before its heading is inspected
update_html_installs_first(doc, got, id) ==
    IF got = NetFail
    THEN [raised |-> "ConnectionError", html |-> doc]
    ELSE IF ~HasH1(got)
    THEN [raised |-> "AttributeError", html |-> Doc(got, id, "retrieved")]
    ELSE IF got.h1 = NotFoundMarker
    THEN [raised |-> "ValueError", html |-> Doc(got, id, "retrieved")]
    ELSE [raised |-> "none", html |-> Doc(got, id, "retrieved")]

\* the retrieved page is checked but never assigned
update_html_keeps_old(doc, got, id) ==
    IF got = NetFail
    THEN [raised |-> "ConnectionError", html |-> doc]
    ELSE IF ~HasH1(got)
    THEN [raised |-> "AttributeError", html |-> doc]
    ELSE IF got.h1 = NotFoundMarker
    THEN [raised |-> "ValueError", html |-> doc]
    ELSE [raised |-> "none", html |-> doc]

\* Scraper.update_html after _request_html produced `got`; id names the new
\* Document object
update_html(doc, got, id) ==
    IF got = NetFail
    THEN [raised |-> "ConnectionError", html |-> doc]
    ELSE IF ~HasH1(got)
    THEN [raised |-> "AttributeError", html |-> doc]
    ELSE IF got.h1 = NotFoundMarker
    THEN [raised |-> "ValueError", html |-> doc]
    ELSE [raised |-> "none", html |-> Doc(got, id, "retrieved")]

\* RequestWrapper._request_html: the Document, or the failure
_request_html(got, id) ==
    IF got = NetFail
    THEN [raised |-> "ConnectionError", html |-> None]
    ELSE IF ~HasH1(got)
    THEN [raised |-> "IndexError", html |-> None]
    ELSE IF got.h1 = NotFoundMarker
    THEN [raised |-> "ValueError", html |-> None]
    ELSE [raised |-> "none", html |-> Doc(got, id, "retrieved")]

\* RequestWrapper.update_html: self.html = self._request_html()
RequestWrapper_update_html(doc, got, id) ==
    LET r == _request_html(got, id)
    IN  IF r.raised # "none" THEN [raised |-> r.raised, html |-> doc]
        ELSE [raised |-> "none", html |-> r.html]

(***************************************************************************)
(* One object at a time: a Rider (Scraper) or a RequestWrapper             *)
(***************************************************************************)
RIDER == <<"r", "i", "d", "e", "r">>
SLUG == <<"a", "-", "b">>
YEAR == <<"2", "0", "2", "0">>

\* URLs handed to the constructors
SampleUrls ==
    { <<"/">> \o RIDER \o <<"/">> \o SLUG,
      BASE_URL \o RIDER \o <<"/">> \o SLUG \o <<"/">> \o YEAR,
      RIDER \o <<"/">> \o SLUG \o <<"/">> \o SLUG \o <<"/">> \o SLUG,
      <<>> }

\* exceptions_to_ignore handed to parse; the first is the default
DefaultIgnore == {"ExpectedParsingError"}
IgnoreChoices ==
    {DefaultIgnore, {}, {"ExpectedParsingError", "AttributeError"}}

IdOf(doc) == IF doc = None THEN -1 ELSE doc.id

NoCall ==
    [op |-> "none", on |-> "none", raised |-> "none", origin |-> "",
     pre_id |-> -1, got |-> None, nreq |-> 0, ignore |-> {}, nwu |-> FALSE,
     returned |-> FALSE, parsed_data |-> <<>>, invoked |-> <<>>,
     downgraded |-> {}, ret |-> None, arg_url |-> <<>>, arg_html |-> None,
     arg_update |-> FALSE]

NoUrlCase == [stage |-> "none"]
NoTableCase == [stage |-> "none"]

Init ==
    /\ cls = "none"
    /\ _url = <<>>
    /\ _html = None
    /\ requests = 0
    /\ born = None
    /\ call = NoCall
    /\ ucase = NoUrlCase
    /\ tcase = NoTableCase

\* the supplied body is checked like a retrieved page
Scraper_init_checks_body(url, body, upd, got) ==
    LET h0 == IF Truthy(body) THEN Doc(body, 0, "supplied") ELSE None
    IN  IF url = <<>>
        THEN [raised |-> "IndexError", url |-> <<>>, html |-> None,
              nreq |-> 0]
        ELSE IF Truthy(body) /\ body.h1 = NotFoundMarker
        THEN [raised |-> "ValueError", url |-> <<>>, html |-> None,
              nreq |-> 0]
        ELSE IF upd
        THEN [raised |-> update_html(h0, got, 1).raised,
              url |-> _get_valid_url(url),
              html |-> update_html(h0, got, 1).html, nreq |-> 1]
        ELSE [raised |-> "none", url |-> _get_valid_url(url), html |-> h0,
              nreq |-> 0]

\* Scraper.__init__, reached as Rider(url, html, update_html): what it
\* raises, and the _url and _html it has assigned by then
Scraper_init(url, body, upd, got) ==
    LET h0 == IF Truthy(body) THEN Doc(body, 0, "supplied") ELSE None
    IN  IF url = <<>>
        THEN [raised |-> "IndexError", url |-> <<>>, html |-> None,
              nreq |-> 0]
        ELSE IF upd
        THEN [raised |-> update_html(h0, got, 1).raised,
              url |-> _get_valid_url(url),
              html |-> update_html(h0, got, 1).html, nreq |-> 1]
        ELSE [raised |-> "none", url |-> _get_valid_url(url), html |-> h0,
              nreq |-> 0]

\* Rider(url, html, update_html); when the constructor raises there is no
\* object
ScraperInit(url, body, upd, got) ==
    LET r == Scraper_init(url, body, upd, got)
        ok == r.raised = "none"
    IN  /\ cls' = IF ok THEN "Rider" ELSE "none"
        /\ _url' = IF ok THEN r.url ELSE <<>>
        /\ _html' = IF ok THEN r.html ELSE None
        /\ requests' = IF ok THEN r.nreq ELSE 0
        /\ born' = IF ok THEN [body_given |-> body # None, update |-> upd]
                   ELSE None
        /\ call' = [NoCall EXCEPT !.op = "__init__", !.on = "Rider",
                                  !.raised = r.raised, !.got = got,
                                  !.nreq = r.nreq, !.arg_url = url,
                                  !.arg_html = body, !.arg_update = upd]
        /\ UNCHANGED <<ucase, tcase>>

\* the program builds its object once; a constructor that raises leaves none
NewRider ==
    /\ call.op = "none"
    /\ \E url \in SampleUrls, body \in Bodies \cup {None}, upd \in BOOLEAN :
         \E got \in IF upd THEN NetResults ELSE {None} :
             ScraperInit(url, body, upd, got)

\* RequestWrapper.__init__
RequestWrapperInit(url, got) ==
    LET empty == url = <<>>
        r == IF empty THEN [raised |-> "IndexError", html |-> None]
             ELSE _request_html(got, 1)
        ok == r.raised = "none"
        n == IF empty THEN 0 ELSE 1
    IN  /\ cls' = IF ok THEN "RequestWrapper" ELSE "none"
        /\ _url' = IF ok THEN _format_url(url) ELSE <<>>
        /\ _html' = IF ok THEN r.html ELSE None
        /\ requests' = IF ok THEN n ELSE 0
        /\ born' = IF ok THEN [body_given |-> FALSE, update |-> TRUE]
                   ELSE None
        /\ call' = [NoCall EXCEPT !.op = "__init__", !.on = "RequestWrapper",
                                  !.raised = r.raised, !.got = got,
                                  !.nreq = n, !.arg_url = url]
        /\ UNCHANGED <<ucase, tcase>>

NewRequestWrapper ==
    /\ call.op = "none"
    /\ \E url \in SampleUrls, got \in NetResults :
         RequestWrapperInit(url, got)

\* Scraper.update_html called on the object
UpdateHtml ==
    /\ cls = "Rider"
    /\ requests < MaxRequests
    /\ \E got \in NetResults :
         LET r == update_html(_html, got, requests + 1)
         IN  /\ _html' = r.html
             /\ call' = [NoCall EXCEPT !.op = "update_html", !.on = cls,
                                       !.raised = r.raised, !.got = got,
                                       !.pre_id = IdOf(_html), !.nreq = 1]
    /\ requests' = requests + 1
    /\ UNCHANGED <<cls, _url, born, ucase, tcase>>

\* RequestWrapper.update_html called on the object
RequestWrapperUpdateHtml ==
    /\ cls = "RequestWrapper"
    /\ requests < MaxRequests
    /\ \E got \in NetResults :
         LET r == RequestWrapper_update_html(_html, got, requests + 1)
         IN  /\ _html' = r.html
             /\ call' = [NoCall EXCEPT !.op = "update_html", !.on = cls,
                                       !.raised = r.raised, !.got = got,
                                       !.pre_id = IdOf(_html), !.nreq = 1]
    /\ requests' = requests + 1
    /\ UNCHANGED <<cls, _url, born, ucase, tcase>>

\* the `html` property read by a caller
ReadHtml ==
    /\ cls = "Rider"
    /\ LET r == html(_html)
       IN  call' = [NoCall EXCEPT !.op = "html", !.on = cls,
                                  !.raised = r.raised, !.origin = r.origin,
                                  !.ret = r.ret, !.pre_id = IdOf(_html)]
    /\ UNCHANGED <<cls, _url, _html, requests, born, ucase, tcase>>

\* Scraper.parse called on the object
Parse ==
    /\ cls = "Rider"
    /\ \E ignore \in IgnoreChoices, nwu \in BOOLEAN :
         LET r == parse(_html, ignore, nwu)
         IN  call' = [NoCall EXCEPT !.op = "parse", !.on = cls,
                                    !.raised = r.raised,
                                    !.origin = r.origin,
                                    !.returned = r.returned,
                                    !.parsed_data = r.parsed_data,
                                    !.invoked = r.invoked,
                                    !.downgraded = r.downgraded,
                                    !.ignore = ignore, !.nwu = nwu,
                                    !.pre_id = IdOf(_html)]
    /\ UNCHANGED <<cls, _url, _html, requests, born, ucase, tcase>>

Next ==
    \/ NewRider
    \/ NewRequestWrapper
    \/ UpdateHtml
    \/ RequestWrapperUpdateHtml
    \/ ReadHtml
    \/ Parse

Spec == Init /\ [][Next]_vars

(***************************************************************************)
(* Properties of dispatch                                                  *)
(***************************************************************************)
\* the public extraction methods of Rider by name, in lexicographic order
EnumerationOrder ==
    <<"birthdate", "height", "name", "nationality",
      "normalized_relative_url", "place_of_birth",
      "points_per_season_history", "relative_url", "teams_history",
      "weight">>

\* the i-th operation, run on the cached document, returns a value
Succeeds(i) == MethodCall(EnumerationOrder[i], _html).tag = "value"

\* the i-th operation raises a kind outside the ignored ones
FailsHard(i) ==
    /\ ~Succeeds(i)
    /\ MethodCall(EnumerationOrder[i], _html).kind \notin call.ignore

AllTolerable == \A i \in 1..Len(EnumerationOrder) : ~FailsHard(i)

\* the keys a tolerant dispatch must hold, in order
KeptIndexes == {i \in 1..Len(EnumerationOrder) : Succeeds(i) \/ call.nwu}

KeysOf(data) == [i \in 1..Len(data) |-> data[i].key]

IsSubsequenceInOrder(keys) ==
    \A i, j \in 1..Len(keys) :
        i < j => \E a, b \in KeptIndexes :
                    /\ a < b
                    /\ EnumerationOrder[a] = keys[i]
                    /\ EnumerationOrder[b] = keys[j]

\* C1: a dispatch over a fetched record whose operations each return or
\* raise an ignored kind never raises, invokes every operation exactly once
\* in enumeration order, and returns one key per operation in that order:
\* the value where the operation succeeded, null where it raised an ignored
\* kind and none_when_unavailable is true, no key where it is false.
C1_DispatchToleratesIgnored ==
    (call.op = "parse" /\ _html # None /\ AllTolerable) =>
        /\ call.raised = "none"
        /\ call.returned
        /\ call.invoked = EnumerationOrder
        /\ Len(call.parsed_data) = Cardinality(KeptIndexes)
        /\ IsSubsequenceInOrder(KeysOf(call.parsed_data))
        /\ \A i \in 1..Len(EnumerationOrder) :
             LET hits == {k \in 1..Len(call.parsed_data) :
                            call.parsed_data[k].key = EnumerationOrder[i]}
             IN  IF Succeeds(i)
                 THEN /\ Cardinality(hits) = 1
                      /\ \A k \in hits :
                           call.parsed_data[k].value
                             = Value(EnumerationOrder[i])
                 ELSE IF call.nwu
                 THEN /\ Cardinality(hits) = 1
                      /\ \A k \in hits : call.parsed_data[k].value = Null
                 ELSE hits = {}

C1_Witness ==
    /\ call.op = "parse" /\ _html # None /\ AllTolerable
    /\ call.nwu
    /\ \E i \in 1..Len(EnumerationOrder) : ~Succeeds(i) /\ i > 1
    /\ \E k \in 1..Len(call.parsed_data) : call.parsed_data[k].value = Null

FirstHard == CHOOSE i \in 1..Len(EnumerationOrder) :
                /\ FailsHard(i)
                /\ \A j \in 1..(i - 1) : ~FailsHard(j)

\* C2: when an operation invoked by dispatch raises a kind that is not
\* ignored, that failure reaches the caller, no later operation is invoked
\* and no result map is returned.
C2_DispatchAbortsOnOtherFailure ==
    (call.op = "parse" /\ _html # None /\ ~AllTolerable) =>
        /\ call.raised = MethodCall(EnumerationOrder[FirstHard], _html).kind
        /\ ~call.returned
        /\ call.parsed_data = <<>>
        /\ call.invoked = SubSeq(EnumerationOrder, 1, FirstHard)

C2_Witness ==
    /\ call.op = "parse" /\ _html # None /\ ~AllTolerable
    /\ FirstHard > 1 /\ FirstHard < Len(EnumerationOrder)
    /\ call.raised = "AttributeError"

\* C3: dispatch with the default ignored kinds downgrades only a field that
\* the layout does not carry; on a record without a cached document it
\* fails with the read-before-fetch failure and returns no map.
C3_UnfetchedDispatchPropagates ==
    /\ (call.op = "parse" /\ call.ignore = DefaultIgnore) =>
           call.downgraded \subseteq {"FieldUnavailable"}
    /\ (call.op = "parse" /\ call.ignore = DefaultIgnore /\ _html = None) =>
           /\ call.raised = "ExpectedParsingError"
           /\ call.origin = "NotFetched"
           /\ ~call.returned
           /\ call.parsed_data = <<>>

C3_Witness ==
    /\ call.op = "parse" /\ call.ignore = DefaultIgnore /\ _html = None
    /\ call.nwu /\ call.raised = "ExpectedParsingError"

(***************************************************************************)
(* Properties of the document cache                                        *)
(***************************************************************************)
\* C4: reading the html accessor fails with the read-before-fetch failure
\* exactly when no Document is cached, otherwise returns the cached
\* Document; it retrieves nothing and leaves the cache as it was.  A record
\* built with update_html holds a Document; one built without body and
\* without update_html holds none until an update_html is made.
C4_AccessorFailsIffUnfetched ==
    /\ call.op = "html" =>
         /\ (call.raised = "ExpectedParsingError") <=> (_html = None)
         /\ call.raised \in {"none", "ExpectedParsingError"}
         /\ (call.raised = "none") => (call.ret = _html)
         /\ (call.raised # "none") => (call.ret = None)
         /\ call.nreq = 0
         /\ IdOf(_html) = call.pre_id
    /\ (cls = "Rider" /\ born.update) => (_html # None)
    /\ (cls = "Rider" /\ ~born.body_given /\ ~born.update /\ requests = 0)
          => (_html = None)

C4_Witness ==
    /\ call.op = "html" /\ _html = None /\ requests > 0
    /\ call.raised = "ExpectedParsingError"

C4_WitnessCached ==
    call.op = "html" /\ _html # None /\ call.ret = _html

RetrievedNotFound(got) ==
    got # None /\ got # NetFail /\ HasH1(got) /\ got.h1 = NotFoundMarker

\* C5: a fetch or refresh that retrieves a page whose primary heading is
\* the not-found marker fails with ValueError (PageNotFound) and does not
\* install the page; the cached Document is never a retrieved page with
\* that heading.
C5_NotFoundNeverInstalled ==
    /\ (_html # None /\ _html.origin = "retrieved")
          => (_html.page.h1 # NotFoundMarker)
    /\ (call.op = "update_html" /\ RetrievedNotFound(call.got)) =>
          /\ call.raised = "ValueError"
          /\ IdOf(_html) = call.pre_id
    /\ (call.op = "__init__" /\ call.nreq = 1
          /\ RetrievedNotFound(call.got)) =>
          /\ call.raised = "ValueError"
          /\ cls = "none"

C5_Witness ==
    /\ call.op = "update_html" /\ RetrievedNotFound(call.got)
    /\ call.pre_id >= 0

\* C6 as stated: after every update_html on a record that held a Document,
\* returning or failing, the Document held before is no longer held.
C6_RefreshAlwaysDiscards ==
    (call.op = "update_html" /\ call.pre_id >= 0)
        => (IdOf(_html) # call.pre_id)

\* C6 amended: an update_html that returns replaces the Document held
\* before by the retrieved one; an update_html that fails leaves the
\* Document held before in place.
C6_RefreshReplacesOnSuccessOnly ==
    (call.op = "update_html" /\ call.pre_id >= 0) =>
        /\ (call.raised = "none") =>
              /\ IdOf(_html) # call.pre_id
              /\ _html = Doc(call.got, requests, "retrieved")
        /\ (call.raised # "none") => (IdOf(_html) = call.pre_id)

C6_Witness ==
    /\ call.op = "update_html" /\ call.pre_id >= 0
    /\ call.raised # "none" /\ _html # None

\* C7 as stated: a body handed to the constructor is the record's initial
\* Document, loaded without retrieval and without the not-found check.
C7_SuppliedBodyIsInitialDocument ==
    (call.op = "__init__" /\ call.on = "Rider" /\ call.raised = "none"
       /\ call.arg_html # None) =>
        /\ _html = Doc(call.arg_html, 0, "supplied")
        /\ call.nreq = 0

\* C7 amended: a non-empty body handed to the constructor together with
\* update_html = False is the record's Document after construction, loaded
\* without retrieval and without the not-found check; every later
\* update_html makes exactly one retrieval, applies the not-found check and,
\* when it returns, has replaced the Document by the retrieved one.
C7_NonEmptyBodyWithoutUpdate ==
    /\ (call.op = "__init__" /\ call.on = "Rider" /\ call.arg_url # <<>>
          /\ Truthy(call.arg_html) /\ ~call.arg_update) =>
          /\ call.raised = "none"
          /\ _html = Doc(call.arg_html, 0, "supplied")
          /\ call.nreq = 0
          /\ requests = 0
    /\ (call.op = "update_html" /\ cls = "Rider" /\ born.body_given) =>
          /\ call.nreq = 1
          /\ RetrievedNotFound(call.got) => call.raised = "ValueError"
          /\ (call.raised = "none") =>
                _html = Doc(call.got, requests, "retrieved")

C7_Witness ==
    /\ call.op = "__init__" /\ call.on = "Rider" /\ call.raised = "none"
    /\ Truthy(call.arg_html) /\ ~call.arg_update
    /\ call.arg_html.h1 = NotFoundMarker
    /\ _html # None

\* C8 as stated: constructing a Rider validates the URL against the
\* variant's pattern, so construction with a violating URL fails with
\* ValueError (InvalidUrl) and no Rider holds a URL outside the pattern.
C8_ConstructionValidatesUrl ==
    /\ (cls = "Rider") => _url_validation_regex(_url)
    /\ (call.op = "__init__" /\ call.on = "Rider" /\ call.arg_url # <<>>
          /\ ~_url_validation_regex(_get_valid_url(call.arg_url))) =>
          /\ call.raised = "ValueError"
          /\ cls = "none"

(***************************************************************************)
(* URL normalising as a pure function: every input put together from at    *)
(* most MaxParts pieces is normalised, made relative and normalised again  *)
(***************************************************************************)
UrlPieces == {<<"/">>, RIDER, SLUG, HTTPS, BASE_URL}

RECURSIVE UrlInputs(_)
UrlInputs(n) ==
    IF n = 0 THEN {<<>>}
    ELSE LET shorter == UrlInputs(n - 1)
         IN  shorter \cup {u \o p : u \in shorter, p \in UrlPieces}

UrlCase(stage, variant, input, abs, rel, again) ==
    [stage |-> stage, variant |-> variant, input |-> input, abs |-> abs,
     rel |-> rel, again |-> again]

InitUrl ==
    /\ cls = "none"
    /\ _url = <<>>
    /\ _html = None
    /\ requests = 0
    /\ born = None
    /\ call = NoCall
    /\ tcase = NoTableCase
    /\ \E input \in UrlInputs(MaxParts) :
         ucase = UrlCase("input", "none", input, <<>>, <<>>, <<>>)

\* url[0] / url[-1] of the empty string
UrlIndexError ==
    /\ ucase.stage = "input"
    /\ ucase.input = <<>>
    /\ ucase' = [ucase EXCEPT !.stage = "IndexError"]
    /\ UNCHANGED <<cls, _url, _html, requests, born, call, tcase>>

\* self._url = self._get_valid_url(url) in Scraper.__init__
ScraperNormalize ==
    /\ ucase.stage = "input"
    /\ ucase.input # <<>>
    /\ ucase' = [ucase EXCEPT !.stage = "absolute", !.variant = "Scraper",
                              !.abs = _get_valid_url(ucase.input)]
    /\ UNCHANGED <<cls, _url, _html, requests, born, call, tcase>>

\* self.url = self._format_url(url) in RequestWrapper.__init__
RequestWrapperNormalize ==
    /\ ucase.stage = "input"
    /\ ucase.input # <<>>
    /\ ucase' = [ucase EXCEPT !.stage = "absolute",
                              !.variant = "RequestWrapper",
                              !.abs = _format_url(ucase.input)]
    /\ UNCHANGED <<cls, _url, _html, requests, born, call, tcase>>

\* relative_url() / _cut_base_url() of the object
MakeRelative ==
    /\ ucase.stage = "absolute"
    /\ ucase' = [ucase EXCEPT !.stage = "relative",
                              !.rel = IF ucase.variant = "Scraper"
                                      THEN relative_url(ucase.abs)
                                      ELSE _cut_base_url(ucase.abs)]
    /\ UNCHANGED <<cls, _url, _html, requests, born, call, tcase>>

\* the object's URL handed to the same normaliser again
NormalizeAgain ==
    /\ ucase.stage = "relative"
    /\ ucase' = [ucase EXCEPT !.stage = "done",
                              !.again = IF ucase.variant = "Scraper"
                                        THEN _make_absolute_url(ucase.abs)
                                        ELSE _format_url(ucase.abs)]
    /\ UNCHANGED <<cls, _url, _html, requests, born, call, tcase>>

NextUrl ==
    \/ UrlIndexError
    \/ ScraperNormalize
    \/ RequestWrapperNormalize
    \/ MakeRelative
    \/ NormalizeAgain

SpecUrl == InitUrl /\ [][NextUrl]_vars

\* p with exactly one leading separator removed
StripLeading(p) == IF p[1] = "/" THEN SubSeq(p, 2, Len(p)) ELSE p

\* p with exactly one trailing separator removed
StripTrailing(p) ==
    IF p[Len(p)] = "/" THEN SubSeq(p, 1, Len(p) - 1) ELSE p

Stripped(variant, p) ==
    IF variant = "Scraper" THEN StripLeading(p) ELSE StripTrailing(p)

Some(v) == [some |-> TRUE, val |-> v]
NoValue == [some |-> FALSE, val |-> <<>>]

RETIRED == <<"r", "e", "t", "i", "r", "e", "d">>

\* texts of the class cell (child 2 of a row)
ClassTexts ==
    { <<"(", "W", "T", ")">>, <<>>, RETIRED, <<"(", " ", ")">> }

\* texts of the date cell (child -2 of a row)
DateTexts == {"as from 15 June", "until 30 June", "2020"}

\* one row of ul.list.rdr-teams
HtmlRows ==
    [season : {"2020"}, team_name : {"UAE"}, team_url : {"team/uae"},
     class_text : ClassTexts, date_text : DateTexts]

RECURSIVE HtmlTables(_)
\* the tables of at most n rows
HtmlTables(n) ==
    IF n = 0 THEN {<<>>}
    ELSE LET shorter == HtmlTables(n - 1)
         IN  shorter \cup {Append(t, r) : t \in shorter, r \in HtmlRows}

available_fields ==
    <<"season", "since", "until", "team_name", "team_url", "class">>

Range(seq) == {seq[i] : i \in 1..Len(seq)}

\* utils.parse_table_fields_args: every available field when no argument is
\* given, otherwise the arguments, each of which has to be available
parse_table_fields_args(args, available) ==
    IF args = {} THEN [raised |-> "none", fields |-> Range(available)]
    ELSE IF args \subseteq Range(available)
    THEN [raised |-> "none", fields |-> args]
    ELSE [raised |-> "ValueError", fields |-> {}]

\* TableParser.parse: one row mapping per table row, restricted to fields
TableParser_parse(rows, fields) ==
    [i \in 1..Len(rows) |-> [f \in fields |-> Some(rows[i][f])]]

\* the retired marker is not looked for
ClassTransform_keeps_retired(x) ==
    IF x # <<>>
    THEN Some(RemoveChar(RemoveChar(RemoveChar(x, "("), ")"), " "))
    ELSE NoValue

\* the transform teams_history hands to parse_extra_column(2, ...)
ClassTransform(x) ==
    IF x # <<>> /\ ~Contains(RETIRED, x)
    THEN Some(RemoveChar(RemoveChar(RemoveChar(x, "("), ")"), " "))
    ELSE NoValue

\* utils.get_day_month of a date cell
get_day_month(x) ==
    IF x = "as from 15 June" THEN "06-15"
    ELSE IF x = "until 30 June" THEN "06-30"
    ELSE "01-01"

\* `"as from" in x` and `"until" in x` on the date cell
HasAsFrom(x) == x = "as from 15 June"
HasUntil(x) == x = "until 30 June"

SinceTransform(x) == Some(IF HasAsFrom(x) THEN get_day_month(x) ELSE "01-01")
UntilTransform(x) == Some(IF HasUntil(x) THEN get_day_month(x) ELSE "12-31")

\* TableParser.parse_extra_column: the transformed text of one fixed child
\* of every row, aligned with the rows by index
parse_extra_column(rows, cell, transform) ==
    [i \in 1..Len(rows) |-> transform[rows[i][cell]]]

\* TableParser.extend_table: merge a column into the rows by index; the
\* lengths have to agree
extend_table(table, name, values) ==
    IF Len(values) # Len(table)
    THEN [raised |-> "ShapeMismatch", table |-> table]
    ELSE [raised |-> "none",
          table |-> [i \in 1..Len(table) |->
                       [k \in DOMAIN table[i] \cup {name} |->
                          IF k = name THEN values[i] ELSE table[i][k]]]]

\* truth value of row['class']
ClassTruthy(row) == row["class"].some /\ row["class"].val # <<>>

\* row.pop("class")
Pop(row, name) == [k \in DOMAIN row \ {name} |-> row[k]]

\* Rider.teams_history
teams_history(rows, args) ==
    LET parsed == parse_table_fields_args(args, available_fields)
        fields == parsed.fields
        casual_fields == fields \cap {"season", "team_name", "team_url"}
        t0 == IF casual_fields # {} THEN TableParser_parse(rows, casual_fields)
              ELSE <<>>
        classes == parse_extra_column(rows, "class_text",
                                      [x \in ClassTexts |-> ClassTransform(x)])
        e1 == extend_table(t0, "class", classes)
        e2 == IF "since" \in fields
              THEN extend_table(e1.table, "since",
                     parse_extra_column(rows, "date_text",
                         [x \in DateTexts |-> SinceTransform(x)]))
              ELSE e1
        e3 == IF "until" \in fields
              THEN extend_table(e2.table, "until",
                     parse_extra_column(rows, "date_text",
                         [x \in DateTexts |-> UntilTransform(x)]))
              ELSE e2
        table == SelectSeq(e3.table, ClassTruthy)
    IN  IF parsed.raised # "none"
        THEN [raised |-> parsed.raised, table |-> <<>>]
        ELSE IF e1.raised # "none"
        THEN [raised |-> e1.raised, table |-> <<>>]
        ELSE IF e2.raised # "none"
        THEN [raised |-> e2.raised, table |-> <<>>]
        ELSE IF e3.raised # "none"
        THEN [raised |-> e3.raised, table |-> <<>>]
        ELSE [raised |-> "none",
              table |-> IF "class" \notin fields
                        THEN [i \in 1..Len(table) |-> Pop(table[i], "class")]
                        ELSE table]

ArgNames == Range(available_fields) \cup {"nationality"}

InitTable ==
    /\ cls = "none"
    /\ _url = <<>>
    /\ _html = None
    /\ requests = 0
    /\ born = None
    /\ call = NoCall
    /\ ucase = NoUrlCase
    /\ \E rows \in HtmlTables(MaxRows) :
         tcase = [stage |-> "fetched", rows |-> rows, args |-> {},
                  raised |-> "none", table |-> <<>>]

\* rider.teams_history(*args) on the fetched page
TeamsHistory ==
    /\ tcase.stage = "fetched"
    /\ \E args \in SUBSET ArgNames :
         LET r == teams_history(tcase.rows, args)
         IN  tcase' = [tcase EXCEPT !.stage = "returned", !.args = args,
                                    !.raised = r.raised, !.table = r.table]
    /\ UNCHANGED <<cls, _url, _html, requests, born, call, ucase>>

NextTable == TeamsHistory

SpecTable == InitTable /\ [][NextTable]_vars

\* the class text names a class: something is left of it once brackets and
\* blanks are taken away, and it is not the retired marker
NamesClass(text) ==
    /\ ~Contains(RETIRED, text)
    /\ \E i \in 1..Len(text) : text[i] \notin {"(", ")", " "}

\* the table rows that name a class, in table order
ValidRowIndexes(rows) == {i \in 1..Len(rows) : NamesClass(rows[i].class_text)}

\* the table row behind the k-th returned row
SourceIndex(rows, k) ==
    CHOOSE i \in ValidRowIndexes(rows) :
        Cardinality({j \in ValidRowIndexes(rows) : j <= i}) = k

Requested(args) == IF args = {} THEN Range(available_fields) ELSE args

\* C10: whatever fields are requested, teams_history filters the rows on
\* the derived class before it prunes the class field, and prunes it from
\* every row: each returned row comes from a table row that names a class,
\* all returned rows have the same keys, and "class" is among them exactly
\* when the caller requested it.
C10_FilterBeforeUniformPrune ==
    (tcase.stage = "returned" /\ tcase.raised = "none") =>
        /\ Len(tcase.table) = Cardinality(ValidRowIndexes(tcase.rows))
        /\ \A k \in 1..Len(tcase.table) :
             LET row == tcase.table[k]
                 src == tcase.rows[SourceIndex(tcase.rows, k)]
             IN  /\ DOMAIN row = Requested(tcase.args)
                 /\ ("class" \in DOMAIN row)
                       <=> ("class" \in Requested(tcase.args))
                 /\ \A f \in DOMAIN row \cap {"season", "team_name",
                                              "team_url"} :
                       row[f] = Some(src[f])
                 /\ ("class" \in DOMAIN row) =>
                       /\ row["class"].some
                       /\ row["class"].val # <<>>
        /\ \A k, m \in 1..Len(tcase.table) :
             DOMAIN tcase.table[k] = DOMAIN tcase.table[m]

C10_Witness ==
    /\ tcase.stage = "returned" /\ tcase.raised = "none"
    /\ "class" \notin tcase.args /\ tcase.args # {}
    /\ Len(tcase.rows) = 2 /\ Len(tcase.table) = 1
    /\ tcase.rows[1].class_text = RETIRED

====
